---------------------------- MODULE Spec2Model ----------------------------
(***************************************************************************)
(* Habit service (backend): the in-memory HabitStore, the Zod schemas and  *)
(* the seven service operations habitList, habitCreate, habitGet,          *)
(* habitUpdate, habitDelete, habitArchive and habitRestore.                *)
(*                                                                         *)
(* Representation.                                                         *)
(*  - A UUID is a positive integer: n stands for the n-th value returned   *)
(*    by uuidv4(), which never returns a value it returned before.  The    *)
(*    integer 0 stands for a string that is not UUID-shaped.               *)
(*  - A request body is a TLA+ record; a key the caller left out is a key  *)
(*    missing from the record's DOMAIN, a key the schema does not know is  *)
(*    an extra key.  Text fields are TLA+ strings and Len is the length    *)
(*    that z.string().min/max compare.  JavaScript null is Null.           *)
(*  - data_criacao is the reading of the clock at creation; the clock is   *)
(*    read once per successful creation and is modelled by the number of   *)
(*    that creation.                                                       *)
(*  - No service function contains an await, so each one runs to its end   *)
(*    within one turn of the event loop: one action per call.              *)
(***************************************************************************)
EXTENDS Integers, Sequences, FiniteSets, TLC

VARIABLES
    records,    \* HabitStore.records : Map<string, HabitRecord>
    nextId,     \* number of the next value uuidv4() returns
    last,       \* the last service call: its request, its outcome, and the
                \* target's stored record before the call
    issued,     \* history: every id a record was ever created with
    deleted,    \* history: every id ever removed by a successful habitDelete
    tasks,      \* the handler invocations in flight, one per slot
    ui          \* frontend: the state of HabitsPage and of the query cache

vars == <<records, nextId, last, issued, deleted, tasks, ui>>

----------------------------------------------------------------------------
(* Bounds of the model *)

\* Spec: number of records the callers ever create
MaxHabits == 2
\* SpecLimit: number of records the bulk caller ever creates
MaxBulk == 22
\* SpecLimit: the ids the caller updates, deletes, archives and restores
LimitTargets == {1, 2}
\* SpecConcurrent: the requests that can be in flight at the same time
Slots == {1, 2}
\* SpecConcurrent: number of habits created, one request after the other,
\* before the concurrent requests start
Prefill == 18

----------------------------------------------------------------------------
(* constants/habit/habitDefaults.ts *)

STATUS_ACTIVE == "Ativo"
STATUS_ARCHIVED == "Arquivado"
STATUS_INACTIVE == "Inativo"
MAX_ACTIVE_HABITS == 20
DEFAULT_USER_ID == "00000000-0000-0000-0000-000000000000"

HABIT_CATEGORIES ==
    {"Saúde", "Fitness", "Produtividade", "Educação", "Finanças",
     "Bem-estar", "Outros"}

NAME_MIN_LENGTH == 3
NAME_MAX_LENGTH == 50
DESCRIPTION_MAX_LENGTH == 200
ARCHIVE_REASON_MAX_LENGTH == 200

----------------------------------------------------------------------------
(* Values *)

\* JavaScript null (descricao: string | null)
Null == "<null>"
\* JavaScript undefined: no value
Undefined == [undefined |-> TRUE]

RECURSIVE Repeat(_, _)
\* s repeated n times
Repeat(s, n) ==
    IF n = 0 THEN ""
    ELSE IF n % 2 = 0 THEN LET half == Repeat(s, n \div 2) IN half \o half
    ELSE s \o Repeat(s, n - 1)

\* the restriction of an object to the keys in ks that it has
Pick(obj, ks) == [k \in (DOMAIN obj) \cap ks |-> obj[k]]

\* { ...a, ...b }: b's keys override a's
Spread(a, b) == [k \in (DOMAIN a) \cup (DOMAIN b) |->
                    IF k \in DOMAIN b THEN b[k] ELSE a[k]]

----------------------------------------------------------------------------
(* services/habit/habitValidation.ts *)

\* z.string().min(lo).max(hi) on the key k of body
StringBetween(body, k, lo, hi) ==
    /\ k \in DOMAIN body
    /\ body[k] # Null
    /\ Len(body[k]) >= lo
    /\ Len(body[k]) <= hi

\* z.string().min(lo)
StringMin(body, k, lo) ==
    /\ k \in DOMAIN body
    /\ body[k] # Null
    /\ Len(body[k]) >= lo

\* z.string().max(hi).nullable(): the key is required, null is accepted
NullableStringMax(body, k, hi) ==
    /\ k \in DOMAIN body
    /\ (body[k] = Null \/ Len(body[k]) <= hi)

\* z.enum([...HABIT_CATEGORIES])
CategoryEnum(body, k) ==
    /\ k \in DOMAIN body
    /\ body[k] \in HABIT_CATEGORIES

CreateKeys == {"nome", "descricao", "categoria", "icone", "fuso_horario"}
UpdateKeys == {"nome", "descricao", "categoria", "icone"}
ArchiveKeys == {"motivo_arquivamento"}
ParamsKeys == {"id"}

\* safeParse: success, and on success the data with unknown keys stripped
createSchema(body) ==
    LET ok == /\ StringBetween(body, "nome", NAME_MIN_LENGTH, NAME_MAX_LENGTH)
              /\ NullableStringMax(body, "descricao", DESCRIPTION_MAX_LENGTH)
              /\ CategoryEnum(body, "categoria")
              /\ StringMin(body, "icone", 1)
              /\ StringMin(body, "fuso_horario", 1)
    IN  [success |-> ok, data |-> IF ok THEN Pick(body, CreateKeys) ELSE Undefined]

updateSchema(body) ==
    LET ok == /\ StringBetween(body, "nome", NAME_MIN_LENGTH, NAME_MAX_LENGTH)
              /\ NullableStringMax(body, "descricao", DESCRIPTION_MAX_LENGTH)
              /\ CategoryEnum(body, "categoria")
              /\ StringMin(body, "icone", 1)
    IN  [success |-> ok, data |-> IF ok THEN Pick(body, UpdateKeys) ELSE Undefined]

archiveSchema(body) ==
    LET ok == StringBetween(body, "motivo_arquivamento", 1, ARCHIVE_REASON_MAX_LENGTH)
    IN  [success |-> ok, data |-> IF ok THEN Pick(body, ArchiveKeys) ELSE Undefined]

\* z.string().uuid(): the positive integers are the UUID-shaped strings
IsUuid(x) == x \in Nat \ {0}

paramsSchema(params) ==
    LET ok == "id" \in DOMAIN params /\ IsUuid(params.id)
    IN  [success |-> ok, data |-> IF ok THEN Pick(params, ParamsKeys) ELSE Undefined]

----------------------------------------------------------------------------
(* instances/habit/habitStore.ts: HabitStore, over the value rs of records *)

RECURSIVE InOrder(_, _)
\* the values of rs for the keys in ids, by ascending key
InOrder(rs, ids) ==
    IF ids = {} THEN <<>>
    ELSE LET m == CHOOSE x \in ids : \A y \in ids : x <= y
         IN  <<rs[m]>> \o InOrder(rs, ids \ {m})

\* Array.from(this.records.values()): a Map iterates in insertion order, and
\* the keys are inserted in the order uuidv4 returned them
getAll(rs) == InOrder(rs, DOMAIN rs)

getById(rs, id) == IF id \in DOMAIN rs THEN rs[id] ELSE Undefined

\* this.records.set(record.id, record)
add(rs, record) ==
    [k \in (DOMAIN rs) \cup {record.id} |->
        IF k = record.id THEN record ELSE rs[k]]

\* as update, inserting the data under an id that is not stored
update_Upsert(rs, id, data) ==
    IF id \in DOMAIN rs THEN [rs EXCEPT ![id] = Spread(rs[id], data)]
    ELSE [k \in (DOMAIN rs) \cup {id} |-> IF k = id THEN data ELSE rs[k]]

\* as update, merging data into every record
update_Everywhere(rs, id, data) ==
    IF id \notin DOMAIN rs THEN rs
    ELSE [k \in DOMAIN rs |-> Spread(rs[k], data)]

\* the store after update(id, data)
update(rs, id, data) ==
    IF id \notin DOMAIN rs THEN rs
    ELSE [rs EXCEPT ![id] = Spread(rs[id], data)]

\* the value update(id, data) returns
updateResult(rs, id, data) ==
    IF id \notin DOMAIN rs THEN Undefined ELSE Spread(rs[id], data)

\* as delete, keeping the record and marking it Archived (a soft delete)
delete_Soft(rs, id) == update(rs, id, [status |-> STATUS_ARCHIVED])

\* the store after delete(id)
delete(rs, id) == [k \in (DOMAIN rs) \ {id} |-> rs[k]]

\* the value delete(id) returns
deleteResult(rs, id) == id \in DOMAIN rs

exists(rs, id) == id \in DOMAIN rs

\* as existsByName, looking at the Active habits only
existsByName_ActiveOnly(rs, nome) ==
    \E k \in DOMAIN rs : rs[k].nome = nome /\ rs[k].status = STATUS_ACTIVE

existsByName(rs, nome) == \E k \in DOMAIN rs : rs[k].nome = nome

\* as countActive, counting the habits of every status
countActive_All(rs) == Cardinality(DOMAIN rs)

countActive(rs) == Cardinality({k \in DOMAIN rs : rs[k].status = STATUS_ACTIVE})

----------------------------------------------------------------------------
(* services/habit/habitService.ts: what each function does on the store     *)
(* value rs.  The result is the error code thrown ("OK" when the function   *)
(* returns), the store when the function ends, and the value returned.      *)

\* the status each throw site passes to the ServiceError constructor with
\* its code
statusCodeOf(code) == IF code = "NOT_FOUND" THEN 404 ELSE 400

\* throw new ServiceError(code, ...): every throw precedes the function's
\* store write, so the store is the one the function was called on
Throw(code, rs) ==
    [code |-> code, store |-> rs, data |-> Undefined,
     statusCode |-> statusCodeOf(code)]

Return(rs, data) == [code |-> "OK", store |-> rs, data |-> data]

ListResponse(h) ==
    [id |-> h.id, nome |-> h.nome, categoria |-> h.categoria,
     icone |-> h.icone, status |-> h.status, data_criacao |-> h.data_criacao]

\* as habitListOn, listing the Active habits only
habitListOn_ActiveOnly(rs) ==
    LET all == InOrder(rs, {k \in DOMAIN rs : rs[k].status = STATUS_ACTIVE})
    IN  Return(rs, [i \in 1..Len(all) |-> ListResponse(all[i])])

habitListOn(rs) ==
    LET all == getAll(rs)
    IN  Return(rs, [i \in 1..Len(all) |-> ListResponse(all[i])])

\* as limitReached, with > for >=
limitReached_Above(rs) == countActive(rs) > MAX_ACTIVE_HABITS

\* BR-001: activeCount >= HABIT_DEFAULTS.MAX_ACTIVE_HABITS
limitReached(rs) == countActive(rs) >= MAX_ACTIVE_HABITS

\* as habitCreateOn, with BR-002 (duplicate) checked before BR-001 (limit)
habitCreateOn_DuplicateFirst(rs, body, id, now) ==
    LET validation == createSchema(body)
        params == validation.data
    IN  IF ~validation.success THEN Throw("VALIDATION_ERROR", rs)
        ELSE IF existsByName(rs, params.nome) THEN Throw("DUPLICATE_NAME", rs)
        ELSE IF limitReached(rs) THEN Throw("LIMIT_REACHED", rs)
        ELSE LET newHabit ==
                    [id |-> id, nome |-> params.nome,
                     descricao |-> params.descricao,
                     categoria |-> params.categoria, icone |-> params.icone,
                     data_criacao |-> now, status |-> STATUS_ACTIVE,
                     usuario_id |-> DEFAULT_USER_ID,
                     fuso_horario |-> params.fuso_horario]
             IN  Return(add(rs, newHabit), newHabit)

\* id is the value uuidv4() returns, now the value new Date().toISOString()
\* returns; both are read only when the three checks have passed
habitCreateOn(rs, body, id, now) ==
    LET validation == createSchema(body)
        params == validation.data
    IN  IF ~validation.success THEN Throw("VALIDATION_ERROR", rs)
        ELSE IF limitReached(rs) THEN Throw("LIMIT_REACHED", rs)
        ELSE IF existsByName(rs, params.nome) THEN Throw("DUPLICATE_NAME", rs)
        ELSE LET newHabit ==
                    [id |-> id,
                     nome |-> params.nome,
                     descricao |-> params.descricao,
                     categoria |-> params.categoria,
                     icone |-> params.icone,
                     data_criacao |-> now,
                     status |-> STATUS_ACTIVE,
                     usuario_id |-> DEFAULT_USER_ID,
                     fuso_horario |-> params.fuso_horario]
             IN  Return(add(rs, newHabit), newHabit)

habitGetOn(rs, params) ==
    LET validation == paramsSchema(params)
    IN  IF ~validation.success THEN Throw("VALIDATION_ERROR", rs)
        ELSE LET record == getById(rs, validation.data.id)
             IN  IF record = Undefined THEN Throw("NOT_FOUND", rs)
                 ELSE Return(rs, record)

\* as renameCollides, with === for !==
renameCollides_Inverted(rs, existing, updateData) ==
    updateData.nome = existing.nome /\ existsByName(rs, updateData.nome)

\* as renameCollides, without the test that the name changes
renameCollides_AlwaysScans(rs, existing, updateData) ==
    existsByName(rs, updateData.nome)

\* BR-002 in habitUpdate: the scan is skipped when the name does not change
renameCollides(rs, existing, updateData) ==
    updateData.nome # existing.nome /\ existsByName(rs, updateData.nome)

\* as habitUpdateOn, refusing to edit an Archived habit
habitUpdateOn_ActiveOnly(rs, params, body) ==
    LET paramsValidation == paramsSchema(params)
        bodyValidation == updateSchema(body)
    IN  IF ~paramsValidation.success THEN Throw("VALIDATION_ERROR", rs)
        ELSE IF ~bodyValidation.success THEN Throw("VALIDATION_ERROR", rs)
        ELSE LET id == paramsValidation.data.id
                 existing == getById(rs, id)
                 data == Pick(bodyValidation.data, UpdateKeys)
             IN  IF existing = Undefined THEN Throw("NOT_FOUND", rs)
                 ELSE IF existing.status = STATUS_ARCHIVED
                      THEN Throw("ALREADY_ARCHIVED", rs)
                 ELSE IF renameCollides(rs, existing, bodyValidation.data)
                      THEN Throw("DUPLICATE_NAME", rs)
                 ELSE Return(update(rs, id, data), updateResult(rs, id, data))

\* as habitUpdateOn, with the store written before BR-002 is checked
habitUpdateOn_WriteBeforeCheck(rs, params, body) ==
    LET paramsValidation == paramsSchema(params)
        bodyValidation == updateSchema(body)
    IN  IF ~paramsValidation.success THEN Throw("VALIDATION_ERROR", rs)
        ELSE IF ~bodyValidation.success THEN Throw("VALIDATION_ERROR", rs)
        ELSE LET id == paramsValidation.data.id
                 existing == getById(rs, id)
                 data == Pick(bodyValidation.data, UpdateKeys)
             IN  IF existing = Undefined THEN Throw("NOT_FOUND", rs)
                 ELSE IF renameCollides(rs, existing, bodyValidation.data)
                      THEN Throw("DUPLICATE_NAME", update(rs, id, data))
                 ELSE Return(update(rs, id, data), updateResult(rs, id, data))

\* as habitUpdateOn, handing the request body itself to the store
habitUpdateOn_RawBody(rs, params, body) ==
    LET paramsValidation == paramsSchema(params)
        bodyValidation == updateSchema(body)
    IN  IF ~paramsValidation.success THEN Throw("VALIDATION_ERROR", rs)
        ELSE IF ~bodyValidation.success THEN Throw("VALIDATION_ERROR", rs)
        ELSE LET id == paramsValidation.data.id
                 existing == getById(rs, id)
             IN  IF existing = Undefined THEN Throw("NOT_FOUND", rs)
                 ELSE IF renameCollides(rs, existing, bodyValidation.data)
                      THEN Throw("DUPLICATE_NAME", rs)
                 ELSE Return(update(rs, id, body), updateResult(rs, id, body))

habitUpdateOn(rs, params, body) ==
    LET paramsValidation == paramsSchema(params)
        bodyValidation == updateSchema(body)
    IN  IF ~paramsValidation.success THEN Throw("VALIDATION_ERROR", rs)
        ELSE IF ~bodyValidation.success THEN Throw("VALIDATION_ERROR", rs)
        ELSE LET id == paramsValidation.data.id
                 existing == getById(rs, id)
                 updateData == bodyValidation.data
                 data == [nome |-> updateData.nome,
                          descricao |-> updateData.descricao,
                          categoria |-> updateData.categoria,
                          icone |-> updateData.icone]
             IN  IF existing = Undefined THEN Throw("NOT_FOUND", rs)
                 ELSE IF renameCollides(rs, existing, updateData)
                      THEN Throw("DUPLICATE_NAME", rs)
                 ELSE Return(update(rs, id, data), updateResult(rs, id, data))

habitDeleteOn(rs, params) ==
    LET validation == paramsSchema(params)
    IN  IF ~validation.success THEN Throw("VALIDATION_ERROR", rs)
        ELSE LET id == validation.data.id
             IN  IF ~exists(rs, id) THEN Throw("NOT_FOUND", rs)
                 ELSE Return(delete(rs, id),
                             [message |-> "Hábito excluído com sucesso"])

\* as habitArchiveOn, without BR-036
habitArchiveOn_NoGuard(rs, params, body) ==
    LET paramsValidation == paramsSchema(params)
        bodyValidation == archiveSchema(body)
    IN  IF ~paramsValidation.success THEN Throw("VALIDATION_ERROR", rs)
        ELSE IF ~bodyValidation.success THEN Throw("VALIDATION_ERROR", rs)
        ELSE LET id == paramsValidation.data.id
                 existing == getById(rs, id)
             IN  IF existing = Undefined THEN Throw("NOT_FOUND", rs)
                 ELSE Return(update(rs, id, [status |-> STATUS_ARCHIVED]),
                             [message |-> "Hábito arquivado com sucesso"])

\* as habitArchiveOn, with the record looked up before the body is validated
habitArchiveOn_LookupFirst(rs, params, body) ==
    LET paramsValidation == paramsSchema(params)
        bodyValidation == archiveSchema(body)
    IN  IF ~paramsValidation.success THEN Throw("VALIDATION_ERROR", rs)
        ELSE LET id == paramsValidation.data.id
                 existing == getById(rs, id)
             IN  IF existing = Undefined THEN Throw("NOT_FOUND", rs)
                 ELSE IF ~bodyValidation.success THEN Throw("VALIDATION_ERROR", rs)
                 ELSE IF existing.status = STATUS_ARCHIVED
                      THEN Throw("ALREADY_ARCHIVED", rs)
                 ELSE Return(update(rs, id, [status |-> STATUS_ARCHIVED]),
                             [message |-> "Hábito arquivado com sucesso"])

\* as habitArchiveOn, keeping the reason in the record
habitArchiveOn_StoresReason(rs, params, body) ==
    LET paramsValidation == paramsSchema(params)
        bodyValidation == archiveSchema(body)
    IN  IF ~paramsValidation.success THEN Throw("VALIDATION_ERROR", rs)
        ELSE IF ~bodyValidation.success THEN Throw("VALIDATION_ERROR", rs)
        ELSE LET id == paramsValidation.data.id
                 existing == getById(rs, id)
             IN  IF existing = Undefined THEN Throw("NOT_FOUND", rs)
                 ELSE IF existing.status = STATUS_ARCHIVED
                      THEN Throw("ALREADY_ARCHIVED", rs)
                 ELSE Return(update(rs, id,
                                [status |-> STATUS_ARCHIVED,
                                 motivo_arquivamento |->
                                     bodyValidation.data.motivo_arquivamento]),
                             [message |-> "Hábito arquivado com sucesso"])

habitArchiveOn(rs, params, body) ==
    LET paramsValidation == paramsSchema(params)
        bodyValidation == archiveSchema(body)
    IN  IF ~paramsValidation.success THEN Throw("VALIDATION_ERROR", rs)
        ELSE IF ~bodyValidation.success THEN Throw("VALIDATION_ERROR", rs)
        ELSE LET id == paramsValidation.data.id
                 existing == getById(rs, id)
             IN  IF existing = Undefined THEN Throw("NOT_FOUND", rs)
                 ELSE IF existing.status = STATUS_ARCHIVED
                      THEN Throw("ALREADY_ARCHIVED", rs)
                 ELSE Return(update(rs, id, [status |-> STATUS_ARCHIVED]),
                             [message |-> "Hábito arquivado com sucesso"])

\* as habitRestoreOn, with BR-001 checked before the habit becomes Active
habitRestoreOn_ChecksLimit(rs, params) ==
    LET validation == paramsSchema(params)
    IN  IF ~validation.success THEN Throw("VALIDATION_ERROR", rs)
        ELSE LET id == validation.data.id
                 existing == getById(rs, id)
             IN  IF existing = Undefined THEN Throw("NOT_FOUND", rs)
                 ELSE IF existing.status = STATUS_ACTIVE
                      THEN Throw("ALREADY_ACTIVE", rs)
                 ELSE IF limitReached(rs) THEN Throw("LIMIT_REACHED", rs)
                 ELSE Return(update(rs, id, [status |-> STATUS_ACTIVE]),
                             [message |-> "Hábito restaurado com sucesso"])

\* as habitRestoreOn, without BR-037
habitRestoreOn_NoGuard(rs, params) ==
    LET validation == paramsSchema(params)
    IN  IF ~validation.success THEN Throw("VALIDATION_ERROR", rs)
        ELSE LET id == validation.data.id
                 existing == getById(rs, id)
             IN  IF existing = Undefined THEN Throw("NOT_FOUND", rs)
                 ELSE Return(update(rs, id, [status |-> STATUS_ACTIVE]),
                             [message |-> "Hábito restaurado com sucesso"])

habitRestoreOn(rs, params) ==
    LET validation == paramsSchema(params)
    IN  IF ~validation.success THEN Throw("VALIDATION_ERROR", rs)
        ELSE LET id == validation.data.id
                 existing == getById(rs, id)
             IN  IF existing = Undefined THEN Throw("NOT_FOUND", rs)
                 ELSE IF existing.status = STATUS_ACTIVE
                      THEN Throw("ALREADY_ACTIVE", rs)
                 ELSE Return(update(rs, id, [status |-> STATUS_ACTIVE]),
                             [message |-> "Hábito restaurado com sucesso"])

----------------------------------------------------------------------------
(* The service calls as actions on the singleton habitStore *)

\* the record stored under the id of params before the call (history)
Before(params) ==
    IF paramsSchema(params).success THEN getById(records, params.id)
    ELSE Undefined

\* an error thrown inside the handler's try block that is no ServiceError
Crash(rs) == [code |-> "ERROR", store |-> rs, data |-> Undefined]

\* error instanceof ServiceError
isServiceError(out) == out.code # "OK" /\ "statusCode" \in DOMAIN out

\* as respond, with createHandler answering through res.json like the
\* other handlers
respond_CreateWithoutStatus(op, out) ==
    IF out.code = "OK" THEN [status |-> 200]
    ELSE IF isServiceError(out) THEN [status |-> out.statusCode, code |-> out.code]
    ELSE [next |-> out.code]

\* what the handler of op does with the outcome of its service call:
\* res.status(201).json or res.json (200), res.status(error.statusCode).json,
\* or next(error) without a response
respond(op, out) ==
    IF out.code = "OK" THEN [status |-> IF op = "create" THEN 201 ELSE 200]
    ELSE IF isServiceError(out) THEN [status |-> out.statusCode, code |-> out.code]
    ELSE [next |-> out.code]

Call(op, params, body, out) ==
    [op |-> op, params |-> params, body |-> body,
     code |-> out.code, data |-> out.data,
     before |-> IF params = Undefined THEN Undefined ELSE Before(params),
     response |-> respond(op, out)]

habitList ==
    LET out == habitListOn(records)
    IN  /\ records' = out.store
        /\ last' = Call("list", Undefined, Undefined, out)
        /\ UNCHANGED <<nextId, issued, deleted, tasks, ui>>

\* as habitCreate, with the id taken from the number of stored records
habitCreate_IdFromCount(body) ==
    LET out == habitCreateOn(records, body, Cardinality(DOMAIN records) + 1, nextId)
    IN  /\ records' = out.store
        /\ nextId' = IF out.code = "OK" THEN nextId + 1 ELSE nextId
        /\ issued' = IF out.code = "OK" THEN issued \cup {out.data.id} ELSE issued
        /\ last' = Call("create", Undefined, body, out)
        /\ UNCHANGED <<deleted, tasks, ui>>

habitCreate(body) ==
    LET out == habitCreateOn(records, body, nextId, nextId)
    IN  /\ records' = out.store
        /\ nextId' = IF out.code = "OK" THEN nextId + 1 ELSE nextId
        /\ issued' = IF out.code = "OK" THEN issued \cup {out.data.id} ELSE issued
        /\ last' = Call("create", Undefined, body, out)
        /\ UNCHANGED <<deleted, tasks, ui>>

habitGet(params) ==
    LET out == habitGetOn(records, params)
    IN  /\ records' = out.store
        /\ last' = Call("get", params, Undefined, out)
        /\ UNCHANGED <<nextId, issued, deleted, tasks, ui>>

habitUpdate(params, body) ==
    LET out == habitUpdateOn(records, params, body)
    IN  /\ records' = out.store
        /\ last' = Call("update", params, body, out)
        /\ UNCHANGED <<nextId, issued, deleted, tasks, ui>>

habitDelete(params) ==
    LET out == habitDeleteOn(records, params)
    IN  /\ records' = out.store
        /\ deleted' = IF out.code = "OK" THEN deleted \cup {params.id} ELSE deleted
        /\ last' = Call("delete", params, Undefined, out)
        /\ UNCHANGED <<nextId, issued, tasks, ui>>

habitArchive(params, body) ==
    LET out == habitArchiveOn(records, params, body)
    IN  /\ records' = out.store
        /\ last' = Call("archive", params, body, out)
        /\ UNCHANGED <<nextId, issued, deleted, tasks, ui>>

habitRestore(params) ==
    LET out == habitRestoreOn(records, params)
    IN  /\ records' = out.store
        /\ last' = Call("restore", params, Undefined, out)
        /\ UNCHANGED <<nextId, issued, deleted, tasks, ui>>

\* a slot with no request in flight
Idle == [state |-> "idle"]

\* selectedHabit === null: no habit has the id 0
NoHabit == 0

\* the query keys the cache can hold: the list of HabitsPage (params
\* undefined), a list with params, and a query of another domain
PageQuery == <<"habits", "undefined">>
QueryKeys == {PageQuery, <<"habits", "status=Arquivado">>, <<"profile">>}

\* HabitsPage as mounted: the useState initial values (pages/Habits 31-37),
\* no list fetched yet, no mutation in flight
InitialUi ==
    [isCreateDialogOpen |-> FALSE,
     isEditDialogOpen |-> FALSE,
     isArchiveDialogOpen |-> FALSE,
     isDeleteDialogOpen |-> FALSE,
     selectedHabit |-> NoHabit,
     archiveReason |-> << >>,
     habits |-> << >>,
     stale |-> {PageQuery},
     mutation |-> Idle,
     settled |-> Idle]

\* new HabitStore(): an empty Map; no call has been made
Init ==
    /\ records = [k \in {} |-> Undefined]
    /\ nextId = 1
    /\ last = [op |-> "none", params |-> Undefined, body |-> Undefined,
               code |-> "NONE", data |-> Undefined, before |-> Undefined,
               response |-> Undefined]
    /\ issued = {}
    /\ deleted = {}
    /\ tasks = [slot \in Slots |-> Idle]
    /\ ui = InitialUi

----------------------------------------------------------------------------
(* The requests the callers send under Spec *)

Meditar ==
    [nome |-> "Meditar", descricao |-> Null, categoria |-> "Bem-estar",
     icone |-> "sparkles", fuso_horario |-> "America/Sao_Paulo"]

Correr ==
    [nome |-> "Correr", descricao |-> "Corrida matinal", categoria |-> "Fitness",
     icone |-> "run", fuso_horario |-> "UTC"]

\* keys the schemas do not know, which safeParse strips
ExtraKeys ==
    [id |-> 1, status |-> STATUS_INACTIVE, usuario_id |-> "outro",
     data_criacao |-> 0]

CreateBodies ==
    { Meditar,
      Correr,
      \* the name of Meditar with other fields
      [Correr EXCEPT !.nome = "Meditar"],
      Spread(Correr, ExtraKeys),
      \* not conforming
      [Meditar EXCEPT !.nome = "ab"],
      [Meditar EXCEPT !.nome = Repeat("n", NAME_MAX_LENGTH + 1)],
      [Meditar EXCEPT !.descricao = Repeat("d", DESCRIPTION_MAX_LENGTH + 1)],
      [Meditar EXCEPT !.categoria = "Lazer"],
      [Correr EXCEPT !.icone = ""],
      Pick(Correr, UpdateKeys) }

Ler ==
    [nome |-> "Ler", descricao |-> "Leitura", categoria |-> "Educação",
     icone |-> "book"]

UpdateBodies ==
    { Pick(Meditar, UpdateKeys),
      Pick(Correr, UpdateKeys),
      Ler,
      Spread(Ler, [ExtraKeys EXCEPT !.id = 2] @@ [fuso_horario |-> "Asia/Tokyo"]),
      \* not conforming
      [Ler EXCEPT !.nome = "ab"],
      [Ler EXCEPT !.categoria = "Lazer"],
      Pick(Ler, {"nome"}) }

ArchiveBodies ==
    { [motivo_arquivamento |-> "Não uso mais"],
      [motivo_arquivamento |-> "Pausa", status |-> STATUS_INACTIVE],
      \* not conforming
      [motivo_arquivamento |-> ""],
      [motivo_arquivamento |-> Repeat("m", ARCHIVE_REASON_MAX_LENGTH + 1)],
      [motivo |-> "Pausa"] }

\* 0 is not UUID-shaped; an id beyond those issued so far is in no record
ParamsOf(ids) == {[id |-> k] : k \in ids}

Params == ParamsOf(0..MaxHabits)

\* uuidv4 is called at most MaxHabits times
Next ==
    \/ habitList
    \/ \E body \in CreateBodies :
          /\ habitCreateOn(records, body, nextId, nextId).code = "OK"
                => nextId <= MaxHabits
          /\ habitCreate(body)
    \/ \E params \in Params : habitGet(params)
    \/ \E params \in Params, body \in UpdateBodies : habitUpdate(params, body)
    \/ \E params \in Params : habitDelete(params)
    \/ \E params \in Params, body \in ArchiveBodies : habitArchive(params, body)
    \/ \E params \in Params : habitRestore(params)

Spec == Init /\ [][Next]_vars

----------------------------------------------------------------------------
(* The requests under SpecLimit: a caller that fills the store.  The n-th   *)
(* habit is created as "Habito n"; only the habits in LimitTargets are        *)
(* updated, deleted, archived and restored afterwards.                      *)

HabitName(n) == "Habito " \o ToString(n)

Bulk(nome) ==
    [nome |-> nome, descricao |-> Null, categoria |-> "Outros",
     icone |-> "star", fuso_horario |-> "UTC"]

LimitCreateBodies ==
    { Bulk(HabitName(nextId)),
      Bulk(HabitName(1)),
      \* not conforming
      [Bulk(HabitName(nextId)) EXCEPT !.categoria = "Lazer"],
      [Bulk(HabitName(1)) EXCEPT !.icone = ""] }

LimitUpdateBodies ==
    { Pick(Bulk(HabitName(k)), UpdateKeys) : k \in LimitTargets }
    \cup { [Pick(Bulk(HabitName(1)), UpdateKeys) EXCEPT !.nome = "ab"] }

LimitArchiveBodies ==
    { [motivo_arquivamento |-> "Não uso mais"], [motivo_arquivamento |-> ""] }

LimitParams == ParamsOf({0} \cup LimitTargets)

NextLimit ==
    \/ habitList
    \/ \E body \in LimitCreateBodies :
          /\ habitCreateOn(records, body, nextId, nextId).code = "OK"
                => nextId <= MaxBulk
          /\ habitCreate(body)
    \/ \E params \in LimitParams : habitGet(params)
    \/ \E params \in LimitParams, body \in LimitUpdateBodies :
          habitUpdate(params, body)
    \/ \E params \in LimitParams : habitDelete(params)
    \/ \E params \in LimitParams, body \in LimitArchiveBodies :
          habitArchive(params, body)
    \/ \E params \in LimitParams : habitRestore(params)

SpecLimit == Init /\ [][NextLimit]_vars

----------------------------------------------------------------------------
(* Vocabulary of the properties *)

Active(rs) == {k \in DOMAIN rs : rs[k].status = "Ativo"}
Archived(rs) == {k \in DOMAIN rs : rs[k].status = "Arquivado"}
Holders(rs, nome) == {k \in DOMAIN rs : rs[k].nome = nome}

\* the step is a call of op: `last' describes it, `records' is the store it
\* was made on
Called(op) == last'.op = op
Succeeds == last'.code = "OK"
Fails(code) == last'.code = code /\ records' = records
Target == last'.params.id

----------------------------------------------------------------------------
(* C1: in every reachable state at most 20 habits are Active.              *)
(* habitRestore checks no count: with 20 Active and one Archived habit it  *)
(* makes a 21st Active one.                                                *)
C1_AtMostTwentyActive == Cardinality(Active(records)) <= 20

----------------------------------------------------------------------------
(* C2: in every reachable state no two distinct stored habits have the     *)
(* same nome, whatever their statuses.                                     *)
C2_NamesUnique ==
    \A a, b \in DOMAIN records :
        a # b => records[a].nome # records[b].nome

\* a rename to the name of an Archived habit has just been refused
C2_Witness ==
    /\ last.op = "update"
    /\ last.code = "DUPLICATE_NAME"
    /\ \E k \in Archived(records) :
          k # last.params.id /\ records[k].nome = last.body.nome

----------------------------------------------------------------------------
(* C3 as stated: with 20 Active habits every Create, whatever its body,    *)
(* fails with LIMIT_REACHED.                                               *)
C3_LimitWhateverBody ==
    [][(Called("create") /\ Cardinality(Active(records)) = 20)
          => Fails("LIMIT_REACHED")]_vars

(* C3 amended: with 20 Active habits a Create whose body conforms to the   *)
(* Create schema fails with LIMIT_REACHED, and one whose body does not     *)
(* conform fails with VALIDATION_ERROR; neither adds a record.             *)
C3_LimitForConformingBody ==
    [][(Called("create") /\ Cardinality(Active(records)) = 20)
          => IF createSchema(last'.body).success
             THEN Fails("LIMIT_REACHED")
             ELSE Fails("VALIDATION_ERROR")]_vars

\* a conforming Create has just been refused with exactly 20 Active habits
C3_Witness ==
    /\ last.op = "create"
    /\ last.code = "LIMIT_REACHED"
    /\ createSchema(last.body).success
    /\ Cardinality(Active(records)) = 20

----------------------------------------------------------------------------
(* C4: Create evaluates schema, then limit, then duplicate: a              *)
(* non-conforming body yields VALIDATION_ERROR whatever the store holds; a *)
(* conforming body with 20 (or more) Active habits yields LIMIT_REACHED    *)
(* even if its name is held; DUPLICATE_NAME is returned only for a         *)
(* conforming body with fewer than 20 Active habits and a held name.       *)
C4_CreateRuleOrder ==
    [][Called("create") =>
        /\ ~createSchema(last'.body).success => Fails("VALIDATION_ERROR")
        /\ (createSchema(last'.body).success
              /\ Cardinality(Active(records)) >= 20) => Fails("LIMIT_REACHED")
        /\ last'.code = "DUPLICATE_NAME" =>
              /\ createSchema(last'.body).success
              /\ Cardinality(Active(records)) < 20
              /\ Holders(records, last'.body.nome) # {}]_vars

\* LIMIT_REACHED has just been returned for a conforming body whose name is
\* held by a stored habit
C4_Witness ==
    /\ last.op = "create"
    /\ last.code = "LIMIT_REACHED"
    /\ Holders(records, last.body.nome) # {}

----------------------------------------------------------------------------
(* C5 as stated: a Create (with a conforming body) whose nome is held by a *)
(* stored habit of any status fails with DUPLICATE_NAME and adds no        *)
(* record.                                                                 *)
C5_DuplicateAlways ==
    [][(Called("create")
          /\ createSchema(last'.body).success
          /\ Holders(records, last'.body.nome) # {})
          => Fails("DUPLICATE_NAME")]_vars

(* C5 amended: such a Create fails and adds no record; the failure is      *)
(* DUPLICATE_NAME when fewer than 20 habits are Active and LIMIT_REACHED   *)
(* when 20 or more are, the limit being checked first.                     *)
C5_DuplicateBelowLimit ==
    [][(Called("create")
          /\ createSchema(last'.body).success
          /\ Holders(records, last'.body.nome) # {})
          => IF Cardinality(Active(records)) < 20
             THEN Fails("DUPLICATE_NAME")
             ELSE Fails("LIMIT_REACHED")]_vars

\* DUPLICATE_NAME has just been returned for the name of an Archived habit
C5_Witness ==
    /\ last.op = "create"
    /\ last.code = "DUPLICATE_NAME"
    /\ Holders(records, last.body.nome) \cap Archived(records) # {}

----------------------------------------------------------------------------
(* C6: every successful Create stores and returns one record with status   *)
(* Active, the placeholder usuario_id, the payload's nome, descricao,      *)
(* categoria, icone and fuso_horario, and an id that no record was ever    *)
(* created with before, the deleted ones included.                         *)
C6_CreatedRecord ==
    [][(Called("create") /\ Succeeds) =>
        LET h == last'.data
            b == last'.body
        IN  /\ h.id \notin issued
            /\ h.id \notin DOMAIN records
            /\ DOMAIN records' = (DOMAIN records) \cup {h.id}
            /\ records'[h.id] = h
            /\ \A k \in DOMAIN records : records'[k] = records[k]
            /\ h.status = "Ativo"
            /\ h.usuario_id = "00000000-0000-0000-0000-000000000000"
            /\ h.nome = b.nome
            /\ h.descricao = b.descricao
            /\ h.categoria = b.categoria
            /\ h.icone = b.icone
            /\ h.fuso_horario = b.fuso_horario
            /\ DOMAIN h = {"id", "nome", "descricao", "categoria", "icone",
                           "data_criacao", "status", "usuario_id",
                           "fuso_horario"}]_vars

\* a habit has just been created after another one was deleted, from a body
\* that carried an id and a status of its own
C6_Witness ==
    /\ last.op = "create"
    /\ last.code = "OK"
    /\ deleted # {}
    /\ "status" \in DOMAIN last.body

----------------------------------------------------------------------------
(* C7: a stored status is Active or Archived, never Inactive; a new record *)
(* is Active; the status of a stored record changes from Active to         *)
(* Archived only in a successful Archive of it and from Archived to Active *)
(* only in a successful Restore of it.                                     *)
C7_StatusTransitions ==
    [][LET before == records
           after == records'
       IN  /\ \A k \in DOMAIN after :
                 after[k].status \in {"Ativo", "Arquivado"}
           /\ \A k \in (DOMAIN after) \ (DOMAIN before) :
                 after[k].status = "Ativo"
           /\ \A k \in (DOMAIN after) \cap (DOMAIN before) :
                 after[k].status # before[k].status =>
                    /\ Succeeds
                    /\ Target = k
                    /\ IF before[k].status = "Ativo"
                       THEN Called("archive") /\ after[k].status = "Arquivado"
                       ELSE Called("restore") /\ after[k].status = "Ativo"]_vars

\* an Update whose body asked for the status Inactive has just succeeded on
\* an Archived habit
C7_Witness ==
    /\ last.op = "update"
    /\ last.code = "OK"
    /\ "status" \in DOMAIN last.body
    /\ last.body.status = "Inativo"
    /\ last.params.id \in Archived(records)

----------------------------------------------------------------------------
(* C8: an Archive (valid id and reason) of a habit that is Archived fails  *)
(* with ALREADY_ARCHIVED, a Restore of a habit that is Active fails with   *)
(* ALREADY_ACTIVE, and both leave the store as it was.                     *)
C8_NoOpTransitionsFail ==
    [][/\ (Called("archive")
             /\ archiveSchema(last'.body).success
             /\ Target \in Archived(records)) => Fails("ALREADY_ARCHIVED")
       /\ (Called("restore") /\ Target \in Active(records))
             => Fails("ALREADY_ACTIVE")]_vars

\* an Archive of an Archived habit has just been refused
C8_Witness ==
    /\ last.op = "archive"
    /\ last.code = "ALREADY_ARCHIVED"
    /\ last.before.status = "Arquivado"
    /\ records[last.params.id] = last.before

----------------------------------------------------------------------------
(* C9: a successful Archive of an Active habit followed by a successful    *)
(* Restore of the same id leaves the record equal to the one before the    *)
(* Archive, status included.                                               *)
C9_ArchiveRestoreRoundTrip ==
    [][(/\ last.op = "archive" /\ last.code = "OK"
        /\ Called("restore") /\ Succeeds
        /\ Target = last.params.id)
          => /\ last.before.status = "Ativo"
             /\ records'[Target] = last.before
             /\ \A k \in DOMAIN records : k # Target => records'[k] = records[k]
             /\ DOMAIN records' = DOMAIN records]_vars

\* the Restore that follows the Archive of the same habit has just succeeded
C9_Witness ==
    /\ last.op = "restore"
    /\ last.code = "OK"
    /\ last.before.status = "Arquivado"
    /\ records[last.params.id] = [last.before EXCEPT !.status = "Ativo"]

----------------------------------------------------------------------------
(* C10: once an id has been deleted it is in no record of the store ever   *)
(* again, and every later Get, Update, Delete, Archive and Restore of it   *)
(* (with a body that passes validation) fails with NOT_FOUND.              *)
C10_DeletedStaysDeleted ==
    [][/\ deleted' \cap DOMAIN records' = {}
       /\ (/\ last'.op \in {"get", "update", "delete", "archive", "restore"}
           /\ Target \in deleted
           /\ Called("update") => updateSchema(last'.body).success
           /\ Called("archive") => archiveSchema(last'.body).success)
             => Fails("NOT_FOUND")]_vars

\* a Restore of a deleted id has just been refused, after every id the
\* callers may create was issued and while the store holds another habit
C10_Witness ==
    /\ last.op = "restore"
    /\ last.code = "NOT_FOUND"
    /\ last.params.id \in deleted
    /\ DOMAIN records # {}
    /\ nextId > MaxHabits

----------------------------------------------------------------------------
(* C11: an Update (valid id and body, stored target) whose nome is held by *)
(* another habit fails with DUPLICATE_NAME and changes nothing; an Update  *)
(* whose nome is the target's own current nome succeeds.                   *)
C11_RenameCollision ==
    [][(Called("update")
          /\ updateSchema(last'.body).success
          /\ Target \in DOMAIN records)
          => /\ (Holders(records, last'.body.nome) \ {Target} # {})
                   => Fails("DUPLICATE_NAME")
             /\ records[Target].nome = last'.body.nome
                   => Succeeds /\ records'[Target].nome = last'.body.nome]_vars

\* an Update that kept the target's name and changed its description has
\* just succeeded while another habit is stored
C11_Witness ==
    /\ last.op = "update"
    /\ last.code = "OK"
    /\ last.before.nome = last.body.nome
    /\ last.before.descricao # last.body.descricao
    /\ Cardinality(DOMAIN records) > 1

----------------------------------------------------------------------------
(* C12: a successful Update sets nome, descricao, categoria and icone of   *)
(* the target to the body's values and leaves its id, status,              *)
(* data_criacao, usuario_id and fuso_horario as they were, whatever else   *)
(* the body carries; the record returned is the stored one.                *)
C12_UpdateFrame ==
    [][(Called("update") /\ Succeeds) =>
        LET old == records[Target]
            new == records'[Target]
            b == last'.body
        IN  /\ new.nome = b.nome
            /\ new.descricao = b.descricao
            /\ new.categoria = b.categoria
            /\ new.icone = b.icone
            /\ new.id = old.id
            /\ new.status = old.status
            /\ new.data_criacao = old.data_criacao
            /\ new.usuario_id = old.usuario_id
            /\ new.fuso_horario = old.fuso_horario
            /\ DOMAIN new = DOMAIN old
            /\ last'.data = new]_vars

\* an Update whose body carried another id, status, owner, creation time
\* and timezone has just succeeded on an Active habit
C12_Witness ==
    /\ last.op = "update"
    /\ last.code = "OK"
    /\ {"id", "status", "usuario_id", "data_criacao", "fuso_horario"}
          \subseteq DOMAIN last.body
    /\ last.body.id # last.params.id
    /\ last.body.fuso_horario # last.before.fuso_horario
    /\ last.before.status = "Ativo"

----------------------------------------------------------------------------
(* C13: a service call that fails, with VALIDATION_ERROR, NOT_FOUND,       *)
(* LIMIT_REACHED, DUPLICATE_NAME, ALREADY_ARCHIVED or ALREADY_ACTIVE,      *)
(* leaves the store exactly as it was, and a call ends in "OK" or in one   *)
(* of these six.                                                           *)
C13_FailureLeavesStore ==
    [][/\ last'.code \in {"OK", "VALIDATION_ERROR", "NOT_FOUND", "LIMIT_REACHED",
                          "DUPLICATE_NAME", "ALREADY_ARCHIVED", "ALREADY_ACTIVE"}
       /\ last'.code # "OK" => records' = records /\ nextId' = nextId]_vars

\* a rename to the name of another stored habit has just been refused
C13_Witness ==
    /\ last.op = "update"
    /\ last.code = "DUPLICATE_NAME"
    /\ records[last.params.id] = last.before
    /\ last.before.nome # last.body.nome

----------------------------------------------------------------------------
(* C17: List never fails, writes nothing, and returns exactly one summary  *)
(* (id, nome, categoria, icone, status, data_criacao) per stored record,   *)
(* of any status, with the record's current values.                        *)
C17_ListSummaries ==
    [][Called("list") =>
        LET out == last'.data
            Summary(h) ==
                [id |-> h.id, nome |-> h.nome, categoria |-> h.categoria,
                 icone |-> h.icone, status |-> h.status,
                 data_criacao |-> h.data_criacao]
        IN  /\ Succeeds
            /\ records' = records
            /\ Len(out) = Cardinality(DOMAIN records)
            /\ \A k \in DOMAIN records :
                  \E i \in 1..Len(out) : out[i] = Summary(records[k])
            /\ \A i \in 1..Len(out) :
                  /\ out[i].id \in DOMAIN records
                  /\ DOMAIN out[i] = {"id", "nome", "categoria", "icone",
                                      "status", "data_criacao"}]_vars

\* a List has just returned an Archived habit and an Active one
C17_Witness ==
    /\ last.op = "list"
    /\ \E i, j \in 1..Len(last.data) :
          /\ last.data[i].status = "Arquivado"
          /\ last.data[j].status = "Ativo"

----------------------------------------------------------------------------
(* C18: Update and Archive check id shape, then body schema, then          *)
(* existence, then the business rule: a malformed id or a non-conforming   *)
(* body yields VALIDATION_ERROR whether or not the id is stored; NOT_FOUND *)
(* is returned only when both validations pass; DUPLICATE_NAME and         *)
(* ALREADY_ARCHIVED only when the record exists.                           *)
C18_CheckOrder ==
    [][(Called("update") \/ Called("archive")) =>
        LET idOk == paramsSchema(last'.params).success
            bodyOk == IF Called("update")
                      THEN updateSchema(last'.body).success
                      ELSE archiveSchema(last'.body).success
        IN  /\ ~idOk => Fails("VALIDATION_ERROR")
            /\ (idOk /\ ~bodyOk) => Fails("VALIDATION_ERROR")
            /\ (idOk /\ bodyOk /\ Target \notin DOMAIN records)
                  => Fails("NOT_FOUND")
            /\ last'.code = "NOT_FOUND" => idOk /\ bodyOk
            /\ last'.code \in {"DUPLICATE_NAME", "ALREADY_ARCHIVED"}
                  => idOk /\ bodyOk /\ Target \in DOMAIN records]_vars

\* an Archive with a well-formed id that is in no record and a
\* non-conforming reason has just been refused with VALIDATION_ERROR
C18_Witness ==
    /\ last.op = "archive"
    /\ last.code = "VALIDATION_ERROR"
    /\ paramsSchema(last.params).success
    /\ last.params.id \notin DOMAIN records
    /\ DOMAIN records # {}

----------------------------------------------------------------------------
(* C19: a service call changes at most one record of the store: the one    *)
(* stored under the targeted id for Update, Delete, Archive and Restore,   *)
(* the new one for Create; Get and List change none.                       *)
C19_OneRecordWritten ==
    [][LET before == records
           after == records'
           changed == {k \in (DOMAIN before) \cup (DOMAIN after) :
                          \/ k \notin DOMAIN before
                          \/ k \notin DOMAIN after
                          \/ before[k] # after[k]}
       IN  /\ Cardinality(changed) <= 1
           /\ last'.op \in {"get", "list"} => changed = {}
           /\ last'.op \in {"update", "delete", "archive", "restore"}
                 => changed \subseteq {Target}
           /\ Called("create") =>
                 changed \subseteq (DOMAIN after) \ (DOMAIN before)]_vars

\* a Delete has just removed one habit and left another one stored
C19_Witness ==
    /\ last.op = "delete"
    /\ last.code = "OK"
    /\ last.params.id \notin DOMAIN records
    /\ DOMAIN records # {}

----------------------------------------------------------------------------
(* C20: a successful Archive changes the status of the target and nothing  *)
(* else, and the store it leaves is the same for every valid reason: the   *)
(* reason is stored nowhere.                                               *)
C20_ArchiveIgnoresReason ==
    [][(Called("archive") /\ Succeeds) =>
        LET after == records'
        IN  /\ after = [records EXCEPT ![Target].status = "Arquivado"]
            /\ \A k \in DOMAIN after :
                  "motivo_arquivamento" \notin DOMAIN after[k]
            /\ \A other \in {b \in ArchiveBodies : archiveSchema(b).success} :
                  habitArchiveOn(records, last'.params, other).store = after]_vars

\* an Archive whose body carried a reason and a status of its own has just
\* succeeded
C20_Witness ==
    /\ last.op = "archive"
    /\ last.code = "OK"
    /\ "status" \in DOMAIN last.body
    /\ records[last.params.id] = [last.before EXCEPT !.status = "Arquivado"]

----------------------------------------------------------------------------
(* The caller of the service holds the object a call returned.  habitCreate  *)
(* returns the object it handed to add, habitGet the one getById found and   *)
(* habitUpdate the one update stored: until the next write to that id, the   *)
(* value the caller holds and the value in the Map are one object, and an    *)
(* assignment to a field of it is an assignment to the stored record.        *)

\* the last call returned the object that is stored under its id
holdsStoredObject ==
    /\ last.op \in {"create", "get", "update"}
    /\ last.code = "OK"

\* the assignments a caller makes to a field of the returned object
Mutations ==
    {[field |-> "nome", value |-> "Hackeado"],
     [field |-> "status", value |-> STATUS_INACTIVE]}

\* record.field = value, on the object the last call returned
callerMutates(m) ==
    /\ holdsStoredObject
    /\ LET id == last.data.id
           mutated == [last.data EXCEPT ![m.field] = m.value]
       IN  /\ records' = [records EXCEPT ![id] = mutated]
           /\ last' = [op |-> "mutate", params |-> [id |-> id], body |-> m,
                       code |-> "OK", data |-> mutated, before |-> records[id],
                       response |-> Undefined]
    /\ UNCHANGED <<nextId, issued, deleted, tasks, ui>>

\* a caller that creates, reads and updates habits and writes to the
\* objects it was handed
NextAlias ==
    \/ habitList
    \/ \E body \in {Meditar, Correr} :
          /\ habitCreateOn(records, body, nextId, nextId).code = "OK"
                => nextId <= MaxHabits
          /\ habitCreate(body)
    \/ \E params \in Params : habitGet(params)
    \/ \E params \in Params : habitUpdate(params, Ler)
    \/ \E m \in Mutations : callerMutates(m)

SpecAlias == Init /\ [][NextAlias]_vars

(* C14: an assignment a caller makes to a field of the record that Create, *)
(* Get or Update returned does not change what a later Get or List         *)
(* returns.                                                                *)
C14_CallersGetCopies ==
    [][Called("mutate") =>
        LET after == records'
        IN  /\ \A p \in Params :
                  habitGetOn(after, p).data = habitGetOn(records, p).data
            /\ habitListOn(after).data = habitListOn(records).data]_vars

----------------------------------------------------------------------------
(* Concurrent requests.  Express calls a handler when a request arrives;  *)
(* the handler calls the service function, which has no await and so runs  *)
(* to its return or throw before anything else is scheduled; the handler   *)
(* then suspends at its own `await' and answers in a later turn of the     *)
(* event loop.  Requests that have arrived wait in any order.              *)

\* the requests of SpecConcurrent: creations under the next bulk name and
\* under one fixed name, and a rename of habit 1 to that fixed name
ConcurrentRequests ==
    {[op |-> "create", params |-> Undefined, body |-> Bulk(HabitName(nextId))],
     [op |-> "create", params |-> Undefined, body |-> Bulk("Extra")],
     [op |-> "update", params |-> [id |-> 1],
      body |-> Pick(Bulk("Extra"), UpdateKeys)]}

\* a request arrives and waits for its handler to be called
Arrive(slot, req) ==
    /\ tasks[slot] = Idle
    /\ tasks' = [tasks EXCEPT ![slot] =
                    [state |-> "pending", req |-> req, code |-> "NONE"]]
    /\ UNCHANGED <<records, nextId, last, issued, deleted, ui>>

\* the service function the handler of req calls
serve(rs, req, id) ==
    IF req.op = "create" THEN habitCreateOn(rs, req.body, id, id)
    ELSE habitUpdateOn(rs, req.params, req.body)

\* as Handle, with a suspension in habitCreate between the rule checks and
\* habitStore.add: the checks run in one turn, the write in a later one
Handle_SuspendsBeforeWrite(slot) ==
    LET t == tasks[slot]
        out == serve(records, t.req, nextId)
        written == serve([k \in {} |-> Undefined], t.req, nextId)
    IN  \/ /\ t.state = "pending"
           /\ t.req.op = "create" /\ out.code = "OK"
           /\ nextId <= MaxBulk
           /\ tasks' = [tasks EXCEPT ![slot].state = "checked"]
           /\ UNCHANGED <<records, nextId, last, issued, deleted, ui>>
        \/ /\ t.state = "checked"
           /\ nextId <= MaxBulk
           /\ records' = add(records, written.data)
           /\ nextId' = nextId + 1
           /\ issued' = issued \cup {nextId}
           /\ last' = Call("create", Undefined, t.req.body, written)
           /\ tasks' = [tasks EXCEPT ![slot].state = "awaiting",
                                     ![slot].code = "OK"]
           /\ UNCHANGED <<deleted, ui>>
        \/ /\ t.state = "pending"
           /\ ~(t.req.op = "create" /\ out.code = "OK")
           /\ records' = out.store
           /\ UNCHANGED <<nextId, issued, deleted, ui>>
           /\ last' = Call(t.req.op, t.req.params, t.req.body, out)
           /\ tasks' = [tasks EXCEPT ![slot].state = "awaiting",
                                     ![slot].code = out.code]

\* the handler is called: `await habitX(...)' runs the whole service
\* function, checks and write, and leaves the handler suspended
Handle(slot) ==
    LET t == tasks[slot]
        out == serve(records, t.req, nextId)
        created == t.req.op = "create" /\ out.code = "OK"
    IN  /\ t.state = "pending"
        /\ created => nextId <= MaxBulk
        /\ records' = out.store
        /\ nextId' = IF created THEN nextId + 1 ELSE nextId
        /\ issued' = IF created THEN issued \cup {out.data.id} ELSE issued
        /\ last' = Call(t.req.op, t.req.params, t.req.body, out)
        /\ tasks' = [tasks EXCEPT ![slot].state = "awaiting",
                                  ![slot].code = out.code]
        /\ UNCHANGED <<deleted, ui>>

\* the handler resumes after its await and answers
Respond(slot) ==
    /\ tasks[slot].state = "awaiting"
    /\ tasks' = [tasks EXCEPT ![slot] = Idle]
    /\ UNCHANGED <<records, nextId, last, issued, deleted, ui>>

NextConcurrent ==
    \/ \E slot \in Slots, req \in ConcurrentRequests : Arrive(slot, req)
    \/ \E slot \in Slots : Handle(slot)
    \/ \E slot \in Slots : Respond(slot)

\* the store after n Creates "Habito 1" .. "Habito n", each answered before
\* the next one is sent
RECURSIVE Prefilled(_)
Prefilled(n) ==
    IF n = 0 THEN [k \in {} |-> Undefined]
    ELSE habitCreateOn(Prefilled(n - 1), Bulk(HabitName(n)), n, n).store

\* the concurrent requests start on a store that holds Prefill habits
InitConcurrent ==
    /\ records = Prefilled(Prefill)
    /\ nextId = Prefill + 1
    /\ last = [op |-> "none", params |-> Undefined, body |-> Undefined,
               code |-> "NONE", data |-> Undefined, before |-> Undefined,
               response |-> Undefined]
    /\ issued = 1..Prefill
    /\ deleted = {}
    /\ tasks = [slot \in Slots |-> Idle]
    /\ ui = InitialUi

SpecConcurrent == InitConcurrent /\ [][NextConcurrent]_vars

\* the creations in flight whose service call has returned a record
CreatedInFlight ==
    {slot \in Slots : /\ tasks[slot].state = "awaiting"
                      /\ tasks[slot].req.op = "create"
                      /\ tasks[slot].code = "OK"}

(* C15: under every interleaving of concurrent requests each store write   *)
(* is made in the same step as its rule checks, on the store the checks    *)
(* saw; so two Creates in flight with the same nome never both succeed, no *)
(* two records share a nome, and Creates never bring the number of Active  *)
(* habits above 20.                                                        *)
C15_ChecksAndWriteAtomic ==
    /\ [](/\ \A a, b \in CreatedInFlight :
                a # b => tasks[a].req.body.nome # tasks[b].req.body.nome
          /\ \A a, b \in DOMAIN records :
                a # b => records[a].nome # records[b].nome
          /\ Cardinality(Active(records)) <= MAX_ACTIVE_HABITS)
    /\ [][records' # records =>
            \E slot \in Slots :
                /\ tasks[slot].state = "pending"
                /\ tasks'[slot].state = "awaiting"
                /\ records' = serve(records, tasks[slot].req, nextId).store
                /\ tasks'[slot].code
                      = serve(records, tasks[slot].req, nextId).code]_vars

\* two creations are in flight with 20 habits Active: the one handled first
\* succeeded, the other was refused with LIMIT_REACHED
C15_Witness ==
    /\ Cardinality(Active(records)) = MAX_ACTIVE_HABITS
    /\ \A slot \in Slots : /\ tasks[slot].state = "awaiting"
                           /\ tasks[slot].req.op = "create"
    /\ {tasks[slot].code : slot \in Slots} = {"OK", "LIMIT_REACHED"}

----------------------------------------------------------------------------
(* The handlers and their responses.  Besides the outcomes of the service  *)
(* functions, a handler can meet an error that is no ServiceError, thrown  *)
(* inside its try block.                                                   *)

Handlers == {"list", "create", "get", "update", "delete", "archive", "restore"}

\* the handler of op catches an error that is no ServiceError
handlerCrash(op) ==
    /\ last' = Call(op, Undefined, Undefined, Crash(records))
    /\ UNCHANGED <<records, nextId, issued, deleted, tasks, ui>>

\* the bulk caller's requests, and the errors that are no ServiceError
NextHttp ==
    \/ NextLimit
    \/ \E op \in Handlers : handlerCrash(op)

SpecHttp == Init /\ [][NextHttp]_vars

(* C16: a handler answers 201 for a successful Create and 200 for every    *)
(* other success, 404 exactly for NOT_FOUND, 400 for VALIDATION_ERROR,     *)
(* LIMIT_REACHED, DUPLICATE_NAME, ALREADY_ARCHIVED and ALREADY_ACTIVE; for *)
(* an error that is no service error it sends no response and passes the   *)
(* error on.                                                               *)
C16_StatusCodes ==
    [][last'.op \in Handlers =>
        LET code == last'.code
            r == last'.response
            answered == "status" \in DOMAIN r
        IN  /\ code = "OK" =>
                  answered /\ r.status = IF Called("create") THEN 201 ELSE 200
            /\ code = "NOT_FOUND" => answered /\ r.status = 404
            /\ (answered /\ r.status = 404) => code = "NOT_FOUND"
            /\ code \in {"VALIDATION_ERROR", "LIMIT_REACHED", "DUPLICATE_NAME",
                         "ALREADY_ARCHIVED", "ALREADY_ACTIVE"}
                  => answered /\ r.status = 400
            /\ code \notin {"OK", "NOT_FOUND", "VALIDATION_ERROR",
                            "LIMIT_REACHED", "DUPLICATE_NAME",
                            "ALREADY_ARCHIVED", "ALREADY_ACTIVE"}
                  => ~answered /\ r = [next |-> code]]_vars

\* with 20 habits Active, each created by a Create answered 201, a further
\* Create has just been answered 400 for LIMIT_REACHED
C16_Witness ==
    /\ last.op = "create"
    /\ last.code = "LIMIT_REACHED"
    /\ last.response = [status |-> 400, code |-> "LIMIT_REACHED"]
    /\ \A k \in DOMAIN records : records[k].data_criacao = k
    /\ Cardinality(Active(records)) = MAX_ACTIVE_HABITS

----------------------------------------------------------------------------
----------------------------------------------------------------------------
(* C22: an Update with a valid id and body and no name collision succeeds  *)
(* on an Archived habit as it does on an Active one: the same fields are   *)
(* written and the status stays what it was.                               *)
C22_UpdateHasNoStatusGuard ==
    [][(/\ Called("update")
        /\ paramsSchema(last'.params).success
        /\ updateSchema(last'.body).success
        /\ Target \in DOMAIN records
        /\ Holders(records, last'.body.nome) \ {Target} = {})
          => LET asActive == [records EXCEPT ![Target].status = "Ativo"]
                 onActive == habitUpdateOn(asActive, last'.params, last'.body)
                 after == records'
             IN  /\ Succeeds
                 /\ onActive.code = "OK"
                 /\ after[Target].status = records[Target].status
                 /\ [after EXCEPT ![Target].status = "Ativo"] = onActive.store
                 /\ [last'.data EXCEPT !.status = "Ativo"] = onActive.data]_vars

\* an Update has just renamed an Archived habit, which is still Archived
C22_Witness ==
    /\ last.op = "update"
    /\ last.code = "OK"
    /\ last.before.status = "Arquivado"
    /\ last.before.nome # last.data.nome
    /\ records[last.params.id].status = "Arquivado"
    /\ records[last.params.id].nome = last.body.nome

----------------------------------------------------------------------------
(* C23: for every stored habit and valid inputs exactly one of Archive and *)
(* Restore succeeds: Archive iff the status is not Archived, Restore iff   *)
(* it is not Active; a stored status is always Active or Archived, so the  *)
(* two conditions are complementary.                                       *)
C23_ArchiveXorRestore ==
    \A k \in DOMAIN records :
        LET archives ==
                \A b \in {x \in ArchiveBodies : archiveSchema(x).success} :
                    habitArchiveOn(records, [id |-> k], b).code = "OK"
            restores == habitRestoreOn(records, [id |-> k]).code = "OK"
        IN  /\ archives <=> records[k].status # "Arquivado"
            /\ restores <=> records[k].status # "Ativo"
            /\ archives <=> ~restores
            /\ records[k].status \in {"Ativo", "Arquivado"}

\* an Archived and an Active habit are stored after an Archive
C23_Witness ==
    /\ last.op = "archive"
    /\ last.code = "OK"
    /\ Archived(records) # {}
    /\ Active(records) # {}

----------------------------------------------------------------------------
(* C24: right after a successful Delete, or a successful Update that       *)
(* changed the nome, a Create with the old nome and a valid payload        *)
(* succeeds (fewer than 20 habits being Active); right after a successful  *)
(* Archive a Create with the habit's nome fails with DUPLICATE_NAME.       *)
C24_NameReleased ==
    LET createWith(nome) ==
            habitCreateOn(records, [Correr EXCEPT !.nome = nome], nextId, nextId)
    IN  last.code = "OK" =>
          /\ last.op = "delete" => createWith(last.before.nome).code = "OK"
          /\ (last.op = "update" /\ last.before.nome # last.data.nome)
                => createWith(last.before.nome).code = "OK"
          /\ last.op = "archive"
                => createWith(last.before.nome).code = "DUPLICATE_NAME"

\* an Archived habit has just been deleted while another habit is stored
C24_Witness ==
    /\ last.op = "delete"
    /\ last.code = "OK"
    /\ last.before.status = "Arquivado"
    /\ Holders(records, last.before.nome) = {}
    /\ DOMAIN records # {}

----------------------------------------------------------------------------
(* C25: a Create with a valid payload and an unused nome succeeds exactly  *)
(* when fewer than 20 habits are Active, however many are Archived; so     *)
(* after 20 were Active and one of them was archived or deleted, it        *)
(* succeeds again.                                                         *)
C25_LimitRecoverable ==
    LET fresh == habitCreateOn(records, Bulk("Novo"), nextId, nextId)
    IN  /\ Holders(records, "Novo") = {}
        /\ fresh.code = IF Cardinality(Active(records)) >= 20
                        THEN "LIMIT_REACHED" ELSE "OK"
        /\ (/\ last.op \in {"archive", "delete"}
            /\ last.code = "OK"
            /\ last.before.status = "Ativo"
            /\ Cardinality(Active(records)) = 19)
              => fresh.code = "OK"

\* one of 20 Active habits has just been archived: 19 are Active and 20 are
\* stored
C25_Witness ==
    /\ last.op = "archive"
    /\ last.code = "OK"
    /\ last.before.status = "Ativo"
    /\ Cardinality(Active(records)) = 19
    /\ Cardinality(DOMAIN records) = 20

----------------------------------------------------------------------------
(* C29: on every reachable store, update with an id that is not stored     *)
(* returns undefined and leaves the store as it is; delete returns true    *)
(* exactly for a stored id and removes that record only; getById with an   *)
(* id that is not stored returns undefined.                                *)
C29_StoreOnUnknownId ==
    \A id \in 0..(MaxHabits + 1) :
        LET data == [status |-> STATUS_ARCHIVED, nome |-> "Outro"]
            afterDelete == delete(records, id)
        IN  /\ id \notin DOMAIN records =>
                  /\ update(records, id, data) = records
                  /\ updateResult(records, id, data) = Undefined
                  /\ getById(records, id) = Undefined
                  /\ afterDelete = records
            /\ deleteResult(records, id) = (id \in DOMAIN records)
            /\ DOMAIN afterDelete = (DOMAIN records) \ {id}
            /\ \A k \in DOMAIN afterDelete : afterDelete[k] = records[k]

\* the store holds habit 2 and no longer habit 1
C29_Witness ==
    /\ DOMAIN records = {2}
    /\ 1 \in deleted

----------------------------------------------------------------------------
(* C30: every record is stored under the key equal to its id field, in     *)
(* every reachable state; so the id of the record under a key never        *)
(* changes.                                                                *)
C30_KeyIsId ==
    \A k \in DOMAIN records : records[k].id = k

\* an Update whose body carried another id has just succeeded
C30_Witness ==
    /\ last.op = "update"
    /\ last.code = "OK"
    /\ "id" \in DOMAIN last.body
    /\ last.body.id # last.params.id
    /\ records[last.params.id].id = last.params.id

----------------------------------------------------------------------------
(* The frontend: HabitCard, the useHabitList hook and HabitsPage.  What    *)
(* the server answers is an input of the frontend: a mutation resolves or  *)
(* rejects, a fetch of the list returns one of HabitLists.  A text the     *)
(* user types is a sequence of characters.                                 *)

\* the variables of the backend, which no frontend step changes
Backend == <<records, nextId, last, issued, deleted, tasks>>

\* String.prototype.trim: white space removed at both ends
IsSpace(c) == c \in {" ", "\t", "\n"}

RECURSIVE trimStart(_)
trimStart(cs) ==
    IF cs = << >> THEN << >>
    ELSE IF IsSpace(Head(cs)) THEN trimStart(Tail(cs))
    ELSE cs

RECURSIVE trimEnd(_)
trimEnd(cs) ==
    IF cs = << >> THEN << >>
    ELSE IF IsSpace(cs[Len(cs)]) THEN trimEnd(SubSeq(cs, 1, Len(cs) - 1))
    ELSE cs

trim(cs) == trimEnd(trimStart(cs))

\* the callbacks HabitsPage passes to every card
PageCallbacks == {"onEdit", "onDelete", "onArchive", "onRestore"}

\* as HabitCard, offering Restaurar whatever the status
HabitCard_RestoreAlways(habit, callbacks) ==
    LET isArchived == habit.status = "Arquivado"
    IN  (IF ~isArchived /\ "onEdit" \in callbacks THEN {"Editar"} ELSE {})
        \cup (IF ~isArchived /\ "onArchive" \in callbacks THEN {"Arquivar"} ELSE {})
        \cup (IF "onRestore" \in callbacks THEN {"Restaurar"} ELSE {})
        \cup (IF "onDelete" \in callbacks THEN {"Excluir"} ELSE {})

\* the items of the card's menu
HabitCard(habit, callbacks) ==
    LET isArchived == habit.status = "Arquivado"
    IN  (IF ~isArchived /\ "onEdit" \in callbacks THEN {"Editar"} ELSE {})
        \cup (IF ~isArchived /\ "onArchive" \in callbacks THEN {"Arquivar"} ELSE {})
        \cup (IF isArchived /\ "onRestore" \in callbacks THEN {"Restaurar"} ELSE {})
        \cup (IF "onDelete" \in callbacks THEN {"Excluir"} ELSE {})

\* queryClient.invalidateQueries({ queryKey }): every cached query whose
\* key starts with queryKey becomes stale
invalidateQueries(stale, queryKey) ==
    stale \cup {k \in QueryKeys :
                  /\ Len(queryKey) <= Len(k)
                  /\ SubSeq(k, 1, Len(queryKey)) = queryKey}

\* as mutationSettled, with no onSuccess for the restore mutation
mutationSettled_RestoreForgets(kind, ok, stale) ==
    IF ok /\ kind # "restore" THEN invalidateQueries(stale, <<"habits">>)
    ELSE stale

\* onSuccess / onError of the five mutations of useHabitList: the stale
\* queries after a mutation of the kind resolved (ok) or rejected
mutationSettled(kind, ok, stale) ==
    IF ok THEN invalidateQueries(stale, <<"habits">>)
    ELSE stale

\* as afterMutation, closing the dialog in a finally block
afterMutation_ClosesAnyway(kind, ok, u) ==
    IF kind = "create" THEN [u EXCEPT !.isCreateDialogOpen = FALSE]
    ELSE IF kind = "update"
         THEN [u EXCEPT !.isEditDialogOpen = FALSE, !.selectedHabit = NoHabit]
    ELSE IF kind = "archive"
         THEN [u EXCEPT !.isArchiveDialogOpen = FALSE, !.selectedHabit = NoHabit,
                        !.archiveReason = << >>]
    ELSE IF kind = "delete"
         THEN [u EXCEPT !.isDeleteDialogOpen = FALSE, !.selectedHabit = NoHabit]
    ELSE u

\* what the page's handler does after `await xHabit(...)': mutateAsync
\* rejects when the mutation failed, and the rest of the handler is skipped
afterMutation(kind, ok, u) ==
    IF ~ok THEN u
    ELSE IF kind = "create" THEN [u EXCEPT !.isCreateDialogOpen = FALSE]
    ELSE IF kind = "update"
         THEN [u EXCEPT !.isEditDialogOpen = FALSE, !.selectedHabit = NoHabit]
    ELSE IF kind = "archive"
         THEN [u EXCEPT !.isArchiveDialogOpen = FALSE, !.selectedHabit = NoHabit,
                        !.archiveReason = << >>]
    ELSE IF kind = "delete"
         THEN [u EXCEPT !.isDeleteDialogOpen = FALSE, !.selectedHabit = NoHabit]
    ELSE u

\* no dialog is open: the cards and the buttons of the page can be clicked
NoDialog ==
    /\ ~ui.isCreateDialogOpen
    /\ ~ui.isEditDialogOpen
    /\ ~ui.isArchiveDialogOpen
    /\ ~ui.isDeleteDialogOpen

\* the menu of the card of habit id, if the page shows one
Offered(id) ==
    IF id \in DOMAIN ui.habits THEN HabitCard(ui.habits[id], PageCallbacks)
    ELSE {}

\* mutateAsync(variables): one mutation is in flight at a time
Mutate(kind, id, data) ==
    /\ ui.mutation = Idle
    /\ ui' = [ui EXCEPT !.mutation = [kind |-> kind, id |-> id, data |-> data]]

\* the lists a fetch of /habit returns
HabitLists ==
    { << >>,
      <<[id |-> 1, status |-> "Ativo"]>>,
      <<[id |-> 1, status |-> "Arquivado"]>>,
      <<[id |-> 1, status |-> "Ativo"], [id |-> 2, status |-> "Arquivado"]>>,
      <<[id |-> 1, status |-> "Inativo"]>> }

\* the texts the user types as the reason
Reasons ==
    { << >>, <<" ", "\n">>, <<"P", "a", "u", "s", "a">>, <<" ", "o", "k", " ">> }

\* the "Novo Hábito" button
openCreate ==
    /\ NoDialog
    /\ ui' = [ui EXCEPT !.isCreateDialogOpen = TRUE]
    /\ UNCHANGED Backend

handleCreate(data) ==
    /\ ui.isCreateDialogOpen
    /\ Mutate("create", NoHabit, [form |-> data])
    /\ UNCHANGED Backend

handleEdit(id) ==
    /\ NoDialog
    /\ "Editar" \in Offered(id)
    /\ ui' = [ui EXCEPT !.selectedHabit = id, !.isEditDialogOpen = TRUE]
    /\ UNCHANGED Backend

\* the form is rendered only while a habit is selected
handleUpdate(data) ==
    /\ ui.isEditDialogOpen
    /\ ui.selectedHabit # NoHabit
    /\ Mutate("update", ui.selectedHabit, [form |-> data])
    /\ UNCHANGED Backend

handleArchiveClick(id) ==
    /\ NoDialog
    /\ "Arquivar" \in Offered(id)
    /\ ui' = [ui EXCEPT !.selectedHabit = id, !.isArchiveDialogOpen = TRUE]
    /\ UNCHANGED Backend

\* the Textarea of the archive dialog
setArchiveReason(text) ==
    /\ ui.isArchiveDialogOpen
    /\ ui' = [ui EXCEPT !.archiveReason = text]
    /\ UNCHANGED Backend

handleArchiveConfirm ==
    /\ ui.isArchiveDialogOpen
    /\ IF ui.selectedHabit = NoHabit \/ trim(ui.archiveReason) = << >>
       THEN UNCHANGED ui
       ELSE Mutate("archive", ui.selectedHabit,
                   [motivo_arquivamento |-> ui.archiveReason])
    /\ UNCHANGED Backend

handleRestore(id) ==
    /\ NoDialog
    /\ "Restaurar" \in Offered(id)
    /\ Mutate("restore", id, Undefined)
    /\ UNCHANGED Backend

handleDeleteClick(id) ==
    /\ NoDialog
    /\ "Excluir" \in Offered(id)
    /\ ui' = [ui EXCEPT !.selectedHabit = id, !.isDeleteDialogOpen = TRUE]
    /\ UNCHANGED Backend

handleDeleteConfirm ==
    /\ ui.isDeleteDialogOpen
    /\ IF ui.selectedHabit = NoHabit
       THEN UNCHANGED ui
       ELSE Mutate("delete", ui.selectedHabit, Undefined)
    /\ UNCHANGED Backend

\* the Cancelar buttons of the four dialogs
cancel(dialog) ==
    /\ \/ /\ dialog = "create" /\ ui.isCreateDialogOpen
          /\ ui' = [ui EXCEPT !.isCreateDialogOpen = FALSE]
       \/ /\ dialog = "edit" /\ ui.isEditDialogOpen
          /\ ui' = [ui EXCEPT !.isEditDialogOpen = FALSE, !.selectedHabit = NoHabit]
       \/ /\ dialog = "archive" /\ ui.isArchiveDialogOpen
          /\ ui' = [ui EXCEPT !.isArchiveDialogOpen = FALSE,
                              !.selectedHabit = NoHabit, !.archiveReason = << >>]
       \/ /\ dialog = "delete" /\ ui.isDeleteDialogOpen
          /\ ui' = [ui EXCEPT !.isDeleteDialogOpen = FALSE, !.selectedHabit = NoHabit]
    /\ UNCHANGED Backend

\* onOpenChange(false): the dialog is dismissed without its Cancelar button
onOpenChange(dialog) ==
    /\ \/ /\ dialog = "create" /\ ui.isCreateDialogOpen
          /\ ui' = [ui EXCEPT !.isCreateDialogOpen = FALSE]
       \/ /\ dialog = "edit" /\ ui.isEditDialogOpen
          /\ ui' = [ui EXCEPT !.isEditDialogOpen = FALSE]
       \/ /\ dialog = "archive" /\ ui.isArchiveDialogOpen
          /\ ui' = [ui EXCEPT !.isArchiveDialogOpen = FALSE]
       \/ /\ dialog = "delete" /\ ui.isDeleteDialogOpen
          /\ ui' = [ui EXCEPT !.isDeleteDialogOpen = FALSE]
    /\ UNCHANGED Backend

\* the server's answer to the mutation in flight arrives: the hook's
\* onSuccess or onError runs, then the rest of the page's handler
settle(ok) ==
    /\ ui.mutation # Idle
    /\ LET kind == ui.mutation.kind
       IN  ui' = afterMutation(kind, ok,
                    [ui EXCEPT !.stale = mutationSettled(kind, ok, ui.stale),
                               !.mutation = Idle,
                               !.settled = [kind |-> kind, ok |-> ok]])
    /\ UNCHANGED Backend

\* a stale query is fetched again; the page shows the list it returns
refetch(key, list) ==
    /\ key \in ui.stale
    /\ ui' = [ui EXCEPT !.stale = ui.stale \ {key},
                        !.habits = IF key = PageQuery
                                   THEN [k \in {list[i].id : i \in 1..Len(list)} |->
                                           CHOOSE h \in {list[i] : i \in 1..Len(list)} :
                                               h.id = k]
                                   ELSE ui.habits]
    /\ UNCHANGED Backend

NextFrontend ==
    \/ openCreate
    \/ handleCreate("Meditar")
    \/ \E id \in 1..MaxHabits : handleEdit(id)
    \/ handleUpdate("Ler")
    \/ \E id \in 1..MaxHabits : handleArchiveClick(id)
    \/ \E text \in Reasons : setArchiveReason(text)
    \/ handleArchiveConfirm
    \/ \E id \in 1..MaxHabits : handleRestore(id)
    \/ \E id \in 1..MaxHabits : handleDeleteClick(id)
    \/ handleDeleteConfirm
    \/ \E dialog \in {"create", "edit", "archive", "delete"} : cancel(dialog)
    \/ \E dialog \in {"create", "edit", "archive", "delete"} : onOpenChange(dialog)
    \/ \E ok \in BOOLEAN : settle(ok)
    \/ \E key \in QueryKeys, list \in HabitLists : refetch(key, list)

SpecFrontend == Init /\ [][NextFrontend]_vars

\* the step in which the answer to the mutation in flight is processed
Settles == ui.mutation # Idle /\ ui'.mutation = Idle

(* C26: when a mutation of the hook (create, update, delete, archive,      *)
(* restore) succeeds, every cached query whose key starts with 'habits'    *)
(* becomes stale, the list of the page among them, and no other query      *)
(* does; when it fails, no query becomes stale.                            *)
C26_SuccessInvalidatesHabits ==
    [][Settles =>
        LET habitsQueries == {k \in QueryKeys : Head(k) = "habits"}
        IN  /\ ui'.settled.kind = ui.mutation.kind
            /\ ui'.settled.kind
                  \in {"create", "update", "delete", "archive", "restore"}
            /\ ui'.settled.ok =>
                  /\ ui'.stale = ui.stale \cup habitsQueries
                  /\ PageQuery \in ui'.stale
            /\ ~ui'.settled.ok => ui'.stale = ui.stale]_vars

\* a restore has just succeeded: both lists of habits are stale, the query
\* of the other domain is not
C26_Witness ==
    /\ ui.settled = [kind |-> "restore", ok |-> TRUE]
    /\ ui.mutation = Idle
    /\ ui.stale = {k \in QueryKeys : Head(k) = "habits"}
    /\ ui.habits # << >>

----------------------------------------------------------------------------
----------------------------------------------------------------------------
(* C28: the card of every habit the page shows offers Editar and Arquivar  *)
(* exactly when the status shown is not Archived, Restaurar exactly when   *)
(* it is Archived, and Excluir in every status; Arquivar and Restaurar are *)
(* never offered together.                                                 *)
C28_CardMenu ==
    \A id \in DOMAIN ui.habits :
        LET habit == ui.habits[id]
            menu == HabitCard(habit, PageCallbacks)
        IN  /\ "Editar" \in menu <=> habit.status # "Arquivado"
            /\ "Arquivar" \in menu <=> habit.status # "Arquivado"
            /\ "Restaurar" \in menu <=> habit.status = "Arquivado"
            /\ "Excluir" \in menu
            /\ ~("Arquivar" \in menu /\ "Restaurar" \in menu)

\* the page shows an Active and an Archived habit
C28_Witness ==
    /\ DOMAIN ui.habits = {1, 2}
    /\ ui.habits[1].status = "Ativo"
    /\ ui.habits[2].status = "Arquivado"
    /\ PageQuery \notin ui.stale

=============================================================================
